---- MODULE Spec2Model ----
(***************************************************************************)
(* Model of the calculator mode of the Numcal firmware                     *)
(* (src/src/Calculator.cpp, src/include/Calculator.hpp).                   *)
(*                                                                         *)
(* C strings are sequences of one-character strings.  A double is a record *)
(* [neg, n, d]: sign bit, numerator and denominator of the magnitude, in   *)
(* lowest terms (zero is n = 0, d = 1, with either sign; NaN is d = 0).    *)
(* Arithmetic is exact on that representation: the model does not          *)
(* reproduce the binary rounding of the hardware's floating point format.  *)
(***************************************************************************)
EXTENDS Integers, Sequences, FiniteSets, TLC

(***************************************************************************)
(* Bounds of the exploration.                                              *)
(***************************************************************************)
\* number of key events (press, long-press, onShow) explored from Init
MaxEvents == 5
\* highest memory slot index that is exercised (the code has slots 0..3)
MaxSlot == 1
\* number of digit presses explored by the typing specification
MaxPresses == 6
\* number of keys of an "A op B =" entry explored by the entry specification
MaxKeys == 7
\* keys pressed on a long input buffer
MaxFullKeys == 3
\* number of key events of the main loop
MaxLoopEvents == 5
\* number of keys held down at the same time
MaxHeld == 1

\* the digit keys that are pressed
Digits == {"0", "2", "3"}

(***************************************************************************)
(* Program constants.                                                      *)
(***************************************************************************)
CALC_VALUE_SIZE == 16
CALC_PRECISION == 4
\* the key matrix: rowPins and colPins of the main loop
ROWS == 6
COLS == 4

\* the value 0 of a char: "no pending operation", string terminator
NUL == "NUL"

DigitChars == <<"0", "1", "2", "3", "4", "5", "6", "7", "8", "9">>
DigitSet == {DigitChars[i] : i \in 1..10}
DigitVal(ch) == (CHOOSE i \in 1..10 : DigitChars[i] = ch) - 1

Slots == 0..MaxSlot
SlotKey(s) == <<"a", "b", "c", "d">>[s + 1]

(***************************************************************************)
(* double                                                                  *)
(***************************************************************************)
RECURSIVE GCD(_, _)
GCD(a, b) == IF b = 0 THEN a ELSE GCD(b, a % b)

RECURSIVE Pow10(_)
Pow10(k) == IF k = 0 THEN 1 ELSE 10 * Pow10(k - 1)

NaN == [neg |-> FALSE, n |-> 0, d |-> 0]
IsNaN(v) == v.d = 0
Zero == [neg |-> FALSE, n |-> 0, d |-> 1]

\* the double with sign bit neg and magnitude n/d (d > 0), in lowest terms
Dbl(neg, n, d) ==
    LET g == GCD(n, d) IN [neg |-> neg, n |-> n \div g, d |-> d \div g]

\* v == 0 on doubles: true of both zeros, false of NaN
IsZero(v) == ~IsNaN(v) /\ v.n = 0

Negate(v) == IF IsNaN(v) THEN v ELSE [v EXCEPT !.neg = ~v.neg]

\* IEEE addition: an exact zero sum is +0 unless both operands are negative
DblAdd(x, y) ==
    IF IsNaN(x) \/ IsNaN(y) THEN NaN
    ELSE LET sx == IF x.neg THEN -(x.n * y.d) ELSE x.n * y.d
             sy == IF y.neg THEN -(y.n * x.d) ELSE y.n * x.d
             s  == sx + sy
         IN IF s = 0 THEN [neg |-> x.neg /\ y.neg, n |-> 0, d |-> 1]
            ELSE IF s < 0 THEN Dbl(TRUE, -s, x.d * y.d)
            ELSE Dbl(FALSE, s, x.d * y.d)

DblSub(x, y) == DblAdd(x, Negate(y))

DblMul(x, y) ==
    IF IsNaN(x) \/ IsNaN(y) THEN NaN
    ELSE Dbl(x.neg # y.neg, x.n * y.n, x.d * y.d)

\* only used with a divisor that is not zero
DblDiv(x, y) ==
    IF IsNaN(x) \/ IsNaN(y) THEN NaN
    ELSE Dbl(x.neg # y.neg, x.n * y.d, x.d * y.n)

(***************************************************************************)
(* C strings                                                               *)
(***************************************************************************)
Min(a, b) == IF a < b THEN a ELSE b

IsDigit(ch) == ch \in DigitSet

\* number of leading digit characters of s from position i on
RECURSIVE DigitRun(_, _)
DigitRun(s, i) ==
    IF i <= Len(s) /\ IsDigit(s[i]) THEN 1 + DigitRun(s, i + 1) ELSE 0

\* value of the digit characters s[i], ..., s[j]
RECURSIVE DigitsValue(_, _, _)
DigitsValue(s, i, j) ==
    IF j < i THEN 0 ELSE 10 * DigitsValue(s, i, j - 1) + DigitVal(s[j])

\* atof: optional sign, digits, optional point and digits; parsing stops at
\* the first character that does not fit, and a text without any digit
\* converts to 0.  The text "nan" converts to NaN.
atof(s) ==
    IF Len(s) > 0 /\ s[1] = "n" THEN NaN
    ELSE LET neg   == Len(s) > 0 /\ s[1] = "-"
             start == IF neg THEN 2 ELSE 1
             ni    == DigitRun(s, start)
             dot   == start + ni
             nf    == IF dot <= Len(s) /\ s[dot] = "." THEN DigitRun(s, dot + 1) ELSE 0
         IN IF ni + nf = 0 THEN Zero
            ELSE Dbl(neg,
                     DigitsValue(s, start, start + ni - 1) * Pow10(nf)
                         + DigitsValue(s, dot + 1, dot + nf),
                     Pow10(nf))

\* decimal digits of a natural number
RECURSIVE NatStr(_)
NatStr(k) ==
    IF k < 10 THEN <<DigitChars[k + 1]>>
    ELSE Append(NatStr(k \div 10), DigitChars[(k % 10) + 1])

\* k written with exactly w digits (k < 10^w)
RECURSIVE PadStr(_, _)
PadStr(k, w) ==
    IF w = 0 THEN <<>>
    ELSE Append(PadStr(k \div 10, w - 1), DigitChars[(k % 10) + 1])

\* String(value, decimalPlaces): fixed notation with decimalPlaces digits
\* after the point, rounded to nearest (ties away from zero); NaN prints
\* as "nan"
FixedStr(v, decimalPlaces) ==
    IF IsNaN(v) THEN <<"n", "a", "n">>
    ELSE LET scale == Pow10(decimalPlaces)
             ip    == v.n \div v.d
             rem   == v.n % v.d
             f     == (rem * scale) \div v.d
             r2    == (rem * scale) % v.d
             fr    == IF 2 * r2 >= v.d THEN f + 1 ELSE f
             ip2   == IF fr = scale THEN ip + 1 ELSE ip
             fr2   == IF fr = scale THEN 0 ELSE fr
         IN (IF v.neg THEN <<"-">> ELSE <<>>)
                \o NatStr(ip2) \o <<".">> \o PadStr(fr2, decimalPlaces)

\* String::toCharArray(buffer, bufsize): at most bufsize - 1 characters
toCharArray(s, bufsize) == SubSeq(s, 1, Min(Len(s), bufsize - 1))

\* while((*--back) == '0');  the text before the trailing zeros
RECURSIVE TrimZeros(_)
TrimZeros(s) ==
    IF Len(s) > 0 /\ s[Len(s)] = "0" THEN TrimZeros(SubSeq(s, 1, Len(s) - 1))
    ELSE s

\* double_to_str from the String on: the copy into the buffer and the trim
formatBuffer(text) ==
    LET buffer == toCharArray(text, CALC_VALUE_SIZE + 1)
        back   == TrimZeros(buffer)
    IN IF Len(back) > 0 /\ back[Len(back)] = "."
       THEN SubSeq(back, 1, Len(back) - 1)
       ELSE back

double_to_str(value) == formatBuffer(FixedStr(value, CALC_PRECISION))

(***************************************************************************)
(* State                                                                   *)
(***************************************************************************)
VARIABLES
    input,             \* char input[CALC_VALUE_SIZE + 1], as a string
    result,            \* double result
    resultBuffer,      \* char resultBuffer[CALC_VALUE_SIZE + 1], as a string
    pendingOperation,  \* char pendingOperation (NUL: none)
    staleInput,        \* char staleInput
    error,             \* bool error
    eeprom,            \* the doubles stored at the memory slots' addresses
    typed,             \* the text last sent to the host by Keyboard.print
    last,              \* the last event delivered to the calculator
    events,            \* number of events delivered so far
    pressed,           \* typing runs: the digits pressed so far
    collision,         \* typing runs: a 0 was pressed on a buffer "0" or "-0"
    stored,            \* per slot: the result and its display at the last store
    fixed,             \* formatting runs: the String(value, 4) text formatted
    cleared,           \* the last event was a Clear press on a non-empty input
    mode,              \* main loop runs: currentMode ("numpad" or "calculator")
    held,              \* main loop runs: the keys down (states[col][row] > 0)
    key                \* main loop runs: the key of the last event and the
                       \* indices getChar was called with

calcVars == <<input, result, resultBuffer, pendingOperation, staleInput, error>>
vars == <<input, result, resultBuffer, pendingOperation, staleInput, error,
          eeprom, typed, last, events, pressed, collision, stored, fixed,
          cleared, mode, held, key>>

\* the Calculator object
Self ==
    [input |-> input, result |-> result, resultBuffer |-> resultBuffer,
     pendingOperation |-> pendingOperation, staleInput |-> staleInput,
     error |-> error]

\* target[i] of a C string: the terminator at and after its end
CharAt(target, i) == IF i < Len(target) THEN target[i + 1] ELSE NUL

(***************************************************************************)
(* Calculator methods, as functions from the object to the object          *)
(***************************************************************************)
\* clearInput without staleInput = true
clearInput_KeepsStale(c) == [c EXCEPT !.input = <<>>]

clearInput(c) == [c EXCEPT !.input = <<>>, !.staleInput = TRUE]

updateResultBuffer(c) == [c EXCEPT !.resultBuffer = double_to_str(c.result)]

clearResult(c) == updateResultBuffer([c EXCEPT !.result = Zero])

\* the value is written at the first terminator among target[0..size-1]
\* push without the test of the length
push_Unbounded(target, value, size) == Append(target, value)

push(target, value, size) ==
    IF Len(target) < size THEN Append(target, value) ELSE target

pushInput(c, value) ==
    LET c1 == IF c.staleInput THEN [c EXCEPT !.input = <<>>] ELSE c
    IN [c1 EXCEPT !.staleInput = FALSE,
                  !.input = push(c1.input, value, CALC_VALUE_SIZE)]

doNumeric(c, ch) ==
    IF c.staleInput THEN pushInput(clearInput(c), ch)
    ELSE IF ch = "0" /\ (CharAt(c.input, 0) = "0"
                          \/ (CharAt(c.input, 0) = "-" /\ CharAt(c.input, 1) = "0"))
         THEN c
         ELSE pushInput(c, ch)

\* hasPoint that never finds the point
hasPoint_Never(c) == FALSE

hasPoint(c) ==
    \E i \in 0..(CALC_VALUE_SIZE - 1) : i < Len(c.input) /\ CharAt(c.input, i) = "."

getInput(c) == IF CharAt(c.input, 0) = NUL THEN <<"0">> ELSE c.input

getResult(c) == c.resultBuffer

\* doMath with the division by zero not reported: error is left false
doMath_SilentDivideByZero(c, op) ==
    LET in == atof(getInput(c))
        c1 == [c EXCEPT !.error = FALSE]
    IN CASE op = "+" -> updateResultBuffer([c1 EXCEPT !.result = DblAdd(c.result, in)])
         [] op = "-" -> updateResultBuffer([c1 EXCEPT !.result = DblSub(c.result, in)])
         [] op \in {"*", "x"} ->
                updateResultBuffer([c1 EXCEPT !.result = DblMul(c.result, in)])
         [] op = "/" ->
                IF IsZero(in) THEN c1
                ELSE updateResultBuffer([c1 EXCEPT !.result = DblDiv(c.result, in)])
         [] OTHER -> [c1 EXCEPT !.result = in]

\* doMath without the reset of the error flag at its start
doMath_StickyError(c, op) ==
    LET in == atof(getInput(c))
    IN CASE op = "+" -> updateResultBuffer([c EXCEPT !.result = DblAdd(c.result, in)])
         [] op = "-" -> updateResultBuffer([c EXCEPT !.result = DblSub(c.result, in)])
         [] op \in {"*", "x"} ->
                updateResultBuffer([c EXCEPT !.result = DblMul(c.result, in)])
         [] op = "/" ->
                IF IsZero(in) THEN [c EXCEPT !.error = TRUE]
                ELSE updateResultBuffer([c EXCEPT !.result = DblDiv(c.result, in)])
         [] OTHER -> [c EXCEPT !.result = in]

doMath(c, op) ==
    LET in == atof(getInput(c))
        c1 == [c EXCEPT !.error = FALSE]
    IN CASE op = "+" -> updateResultBuffer([c1 EXCEPT !.result = DblAdd(c.result, in)])
         [] op = "-" -> updateResultBuffer([c1 EXCEPT !.result = DblSub(c.result, in)])
         [] op \in {"*", "x"} ->
                updateResultBuffer([c1 EXCEPT !.result = DblMul(c.result, in)])
         [] op = "/" ->
                IF IsZero(in) THEN [c1 EXCEPT !.error = TRUE]
                ELSE updateResultBuffer([c1 EXCEPT !.result = DblDiv(c.result, in)])
         [] OTHER -> [c1 EXCEPT !.result = in]

\* EEPROM.read of the slot's bytes into the union, then double_to_str
loadMemory(c, slot, mem) == [c EXCEPT !.input = double_to_str(mem[slot])]

\* a store that writes the value to every slot
storeMemory_AllSlots(mem, slot, data) == [s \in DOMAIN mem |-> data]

\* EEPROM.update of the slot's bytes from the union
storeMemory(mem, slot, data) == [mem EXCEPT ![slot] = data]

\* the operator keys' case without the test of the input: doMath always runs
commit_Unguarded(c, op) ==
    [doMath(c, c.pendingOperation) EXCEPT !.pendingOperation = op,
                                          !.staleInput = TRUE]

\* the operator keys' case applying the pressed operator, not the pending one
commit_NewOperator(c, op) ==
    LET c1 == IF CharAt(c.input, 0) # NUL /\ ~c.staleInput
              THEN doMath(c, op) ELSE c
    IN [c1 EXCEPT !.pendingOperation = op, !.staleInput = TRUE]

\* doOperation, cases '+', '/', '*', 'x' (and '-' falling through)
commit(c, op) ==
    LET c1 == IF CharAt(c.input, 0) # NUL /\ ~c.staleInput
              THEN doMath(c, c.pendingOperation) ELSE c
    IN [c1 EXCEPT !.pendingOperation = op, !.staleInput = TRUE]

doOperation(c, op, mem) ==
    CASE op \in {"a", "b", "c", "d"} ->
            loadMemory(c, CHOOSE s \in 0..3 : SlotKey(s) = op, mem)
      [] op = "-" ->
            IF CharAt(c.input, 0) = NUL \/ c.staleInput
            THEN [c EXCEPT !.input = <<"-">>, !.staleInput = FALSE]
            ELSE commit(c, op)
      [] op \in {"+", "/", "*", "x"} -> commit(c, op)
      [] op = "C" ->
            IF CharAt(c.input, 0) = NUL
            THEN [clearResult(c) EXCEPT !.pendingOperation = NUL]
            ELSE clearInput(c)
      [] op = "." ->
            LET c1 == IF c.staleInput THEN pushInput(c, "0") ELSE c
            IN IF ~hasPoint(c1) THEN pushInput(c1, ".") ELSE c1
      [] op = "\n" ->
            [doMath(c, c.pendingOperation) EXCEPT !.staleInput = TRUE]
      [] OTHER -> c

onPress(c, ch, mem) ==
    IF IsDigit(ch) THEN doNumeric(c, ch) ELSE doOperation(c, ch, mem)

\* onLongPress(const char): the object and the EEPROM after the call
onLongPress(c, ch, mem) ==
    IF ch \in {"a", "b", "c", "d"}
    THEN LET slot == CHOOSE s \in 0..3 : SlotKey(s) = ch
         IN [calc |-> [c EXCEPT !.input = getResult(c)],
             mem  |-> storeMemory(mem, slot, c.result)]
    ELSE [calc |-> c, mem |-> mem]

onShow(c) == clearResult(clearInput(c))

\* Calculator::Calculator on the zero-initialised global object
Constructed ==
    clearResult(clearInput(
        [input |-> <<>>, result |-> Zero, resultBuffer |-> <<>>,
         pendingOperation |-> NUL, staleInput |-> FALSE, error |-> FALSE]))

\* the content of a memory slot before the first store: zeroed or erased
\* (all bits set, which reads as NaN)
EepromInit == {Zero, NaN}

(***************************************************************************)
(* Specification: any sequence of MaxEvents events                         *)
(***************************************************************************)
Set(c) ==
    /\ input' = c.input
    /\ result' = c.result
    /\ resultBuffer' = c.resultBuffer
    /\ pendingOperation' = c.pendingOperation
    /\ staleInput' = c.staleInput
    /\ error' = c.error

Event(kind, k) ==
    /\ events < MaxEvents
    /\ events' = events + 1
    /\ last' = [kind |-> kind, key |-> k]
    /\ cleared' = (kind = "press" /\ k = "C" /\ input # <<>>)
    /\ UNCHANGED <<pressed, collision, fixed, mode, held, key>>

\* no key event of the main loop yet
NoKey == [row |-> ROWS, col |-> COLS, i |-> ROWS, j |-> COLS]

\* no store to the slot yet
NoStore == [set |-> FALSE, value |-> Zero, shown |-> <<>>]

Init ==
    /\ input = Constructed.input
    /\ result = Constructed.result
    /\ resultBuffer = Constructed.resultBuffer
    /\ pendingOperation = Constructed.pendingOperation
    /\ staleInput = Constructed.staleInput
    /\ error = Constructed.error
    /\ eeprom \in [0..3 -> EepromInit]
    /\ \A s \in 0..3 : s \notin Slots => eeprom[s] = Zero
    /\ typed = <<>>
    /\ last = [kind |-> "init", key |-> NUL]
    /\ events = 0
    /\ pressed = <<>>
    /\ collision = FALSE
    /\ stored = [s \in 0..3 |-> NoStore]
    /\ cleared = FALSE
    /\ mode = "calculator"
    /\ held = {}
    /\ key = NoKey
    /\ fixed = <<>>

PressDigit(d) ==
    /\ Event("press", d)
    /\ Set(onPress(Self, d, eeprom))
    /\ UNCHANGED <<eeprom, typed, stored>>

PressMemory(s) ==
    /\ Event("press", SlotKey(s))
    /\ Set(onPress(Self, SlotKey(s), eeprom))
    /\ UNCHANGED <<eeprom, typed, stored>>

PressMinus ==
    /\ Event("press", "-")
    /\ Set(onPress(Self, "-", eeprom))
    /\ UNCHANGED <<eeprom, typed, stored>>

PressOperator(op) ==
    /\ Event("press", op)
    /\ Set(onPress(Self, op, eeprom))
    /\ UNCHANGED <<eeprom, typed, stored>>

PressClear ==
    /\ Event("press", "C")
    /\ Set(onPress(Self, "C", eeprom))
    /\ UNCHANGED <<eeprom, typed, stored>>

PressPoint ==
    /\ Event("press", ".")
    /\ Set(onPress(Self, ".", eeprom))
    /\ UNCHANGED <<eeprom, typed, stored>>

\* an Equals press that also forgets the pending operator
PressEquals_ForgetsOperator ==
    /\ Event("press", "\n")
    /\ Set([onPress(Self, "\n", eeprom) EXCEPT !.pendingOperation = NUL])
    /\ UNCHANGED <<eeprom, typed, stored>>

PressEquals ==
    /\ Event("press", "\n")
    /\ Set(onPress(Self, "\n", eeprom))
    /\ UNCHANGED <<eeprom, typed, stored>>

LongPressMemory(s) ==
    /\ Event("long", SlotKey(s))
    /\ LET r == onLongPress(Self, SlotKey(s), eeprom)
       IN Set(r.calc) /\ eeprom' = r.mem
    /\ stored' = [stored EXCEPT ![s] = [set |-> TRUE, value |-> result,
                                        shown |-> getResult(Self)]]
    /\ UNCHANGED typed

LongPressPoint ==
    /\ Event("long", ".")
    /\ typed' = getResult(Self)
    /\ UNCHANGED <<calcVars, eeprom, stored>>

OnShow ==
    /\ Event("show", NUL)
    /\ Set(onShow(Self))
    /\ UNCHANGED <<eeprom, typed, stored>>

Next ==
    \/ \E d \in Digits : PressDigit(d)
    \/ \E s \in Slots : PressMemory(s)
    \/ PressMinus
    \/ \E op \in {"+", "/", "x"} : PressOperator(op)
    \/ PressClear
    \/ PressPoint
    \/ PressEquals
    \/ \E s \in Slots : LongPressMemory(s)
    \/ LongPressPoint
    \/ OnShow

Spec == Init /\ [][Next]_vars

(***************************************************************************)
(* Typing specification: digit presses only, from a state whose input is   *)
(* stale.  pressed records the digits, collision whether a 0 was pressed   *)
(* while the buffer being typed was exactly "0" or "-0".                   *)
(***************************************************************************)
\* the object after the presses keys, from the object c
RECURSIVE RunKeys(_, _, _)
RunKeys(c, keys, mem) ==
    IF keys = <<>> THEN c
    ELSE RunKeys(onPress(c, Head(keys), mem), Tail(keys), mem)

\* key sequences that leave the input stale
StaleStarts ==
    {<<>>, <<"0", "+">>, <<"2", "3", "x">>, <<"-", "0", "/">>, <<"3", ".", "\n">>}

GhostPress(ch) ==
    /\ Set(onPress(Self, ch, eeprom))
    /\ pressed' = Append(pressed, ch)
    /\ collision' = (collision \/ (ch = "0" /\ ~staleInput
                                   /\ input \in {<<"0">>, <<"-", "0">>}))
    /\ last' = [kind |-> "press", key |-> ch]
    /\ events' = events + 1
    /\ UNCHANGED <<eeprom, typed, stored, fixed, cleared, mode, held, key>>

GhostInit ==
    /\ eeprom = [s \in 0..3 |-> Zero]
    /\ typed = <<>>
    /\ last = [kind |-> "init", key |-> NUL]
    /\ events = 0
    /\ pressed = <<>>
    /\ collision = FALSE
    /\ stored = [s \in 0..3 |-> NoStore]
    /\ cleared = FALSE
    /\ mode = "calculator"
    /\ held = {}
    /\ key = NoKey

TypingInit ==
    /\ GhostInit
    /\ fixed = <<>>
    /\ \E p \in StaleStarts :
         LET c == RunKeys(Constructed, p, eeprom)
         IN /\ input = c.input
            /\ result = c.result
            /\ resultBuffer = c.resultBuffer
            /\ pendingOperation = c.pendingOperation
            /\ staleInput = c.staleInput
            /\ error = c.error

TypeDigit(d) ==
    /\ Len(pressed) < MaxPresses
    /\ GhostPress(d)

TypingNext == \E d \in Digits : TypeDigit(d)

SpecTyping == TypingInit /\ [][TypingNext]_vars

(***************************************************************************)
(* Entry specification: from the initial state, the keys of one entry      *)
(* "A op B =", the operands typed as an optional sign, digits and at most  *)
(* one point.  pressed records the keys.                                   *)
(***************************************************************************)
OperatorKeys == {"+", "-", "x", "/"}

\* position of the operator key in keys, 0 when none was pressed yet (a "-"
\* that starts an operand is its sign)
OperatorPos(keys) ==
    LET ps == {i \in 2..Len(keys) : keys[i] \in OperatorKeys /\ keys[i - 1] \notin OperatorKeys}
    IN IF ps = {} THEN 0 ELSE CHOOSE i \in ps : \A j \in ps : i <= j

\* the keys of the operand being typed
CurrentOperand(keys) == SubSeq(keys, OperatorPos(keys) + 1, Len(keys))

LeftKeys(keys) == SubSeq(keys, 1, OperatorPos(keys) - 1)

RightKeys(keys) == SubSeq(keys, OperatorPos(keys) + 1, Len(keys) - 1)

HasDigit(t) == \E i \in 1..Len(t) : IsDigit(t[i])

HasPointKey(t) == \E i \in 1..Len(t) : t[i] = "."

EntryDone(keys) == Len(keys) > 0 /\ keys[Len(keys)] = "\n"

\* may key k follow keys in an entry "A op B ="
EntryAllows(keys, k) ==
    LET t == CurrentOperand(keys)
    IN /\ ~EntryDone(keys)
       /\ CASE IsDigit(k) -> TRUE
            [] k = "." -> ~HasPointKey(t)
            [] k = "-" -> t = <<>> \/ (OperatorPos(keys) = 0 /\ HasDigit(t))
            [] k \in {"+", "x", "/"} -> OperatorPos(keys) = 0 /\ HasDigit(t)
            [] k = "\n" ->
                  /\ OperatorPos(keys) > 0
                  /\ HasDigit(t)
                  /\ (keys[OperatorPos(keys)] = "/" => ~IsZero(atof(t)))
            [] OTHER -> FALSE

\* ArithmeticEngine.apply of the operator key op
Apply(op, left, right) ==
    CASE op = "+" -> DblAdd(left, right)
      [] op = "-" -> DblSub(left, right)
      [] op = "x" -> DblMul(left, right)
      [] op = "/" -> DblDiv(left, right)

EntryInit ==
    /\ GhostInit
    /\ fixed = <<>>
    /\ input = Constructed.input
    /\ result = Constructed.result
    /\ resultBuffer = Constructed.resultBuffer
    /\ pendingOperation = Constructed.pendingOperation
    /\ staleInput = Constructed.staleInput
    /\ error = Constructed.error

EnterKey(k) ==
    /\ Len(pressed) < MaxKeys
    /\ EntryAllows(pressed, k)
    /\ GhostPress(k)

EntryNext == \E k \in Digits \cup OperatorKeys \cup {".", "\n"} : EnterKey(k)

SpecEntry == EntryInit /\ [][EntryNext]_vars

(***************************************************************************)
(* Formatting specification: updateResultBuffer on a result whose          *)
(* String(result, CALC_PRECISION) text is fixed.  The texts are those of   *)
(* results whose integer part has at most CALC_VALUE_SIZE digits (a run of *)
(* 2s, a run of 0s, a run of 3s), beyond the range of the model's integer  *)
(* arithmetic; result itself is not tracked in these runs.                 *)
(***************************************************************************)
RECURSIVE Rep(_, _)
Rep(ch, k) == IF k = 0 THEN <<>> ELSE <<ch>> \o Rep(ch, k - 1)

\* significant decimal digits a double holds
DoubleDigits == 15

IntegerTexts ==
    {<<"0">>} \cup
    {Rep("2", a) \o Rep("0", b) \o Rep("3", c) :
        <<a, b, c>> \in {t \in (1..CALC_VALUE_SIZE) \X (0..CALC_VALUE_SIZE)
                                  \X (0..CALC_VALUE_SIZE) :
                            t[1] + t[2] + t[3] <= CALC_VALUE_SIZE}}

FractionTexts ==
    {<<"0", "0", "0", "0">>, <<"2", "0", "0", "0">>, <<"0", "3", "0", "0">>,
     <<"0", "0", "2", "0">>, <<"0", "0", "0", "3">>}

FixedTexts ==
    {sg \o ip \o <<".">> \o fp :
        <<sg, ip, fp>> \in {t \in {<<>>, <<"-">>} \X IntegerTexts \X FractionTexts :
                              \/ t[3] = <<"0", "0", "0", "0">>
                              \/ Len(t[2]) + CALC_PRECISION <= DoubleDigits}}

FormatInit ==
    /\ GhostInit
    /\ input = Constructed.input
    /\ result = Constructed.result
    /\ resultBuffer = Constructed.resultBuffer
    /\ pendingOperation = Constructed.pendingOperation
    /\ staleInput = Constructed.staleInput
    /\ error = Constructed.error
    /\ fixed \in FixedTexts

\* updateResultBuffer: double_to_str(this->resultBuffer, this->result)
FormatResult ==
    /\ last.kind = "init"
    /\ resultBuffer' = formatBuffer(fixed)
    /\ last' = [kind |-> "format", key |-> NUL]
    /\ UNCHANGED <<input, result, pendingOperation, staleInput, error, eeprom,
                   typed, events, pressed, collision, stored, fixed, cleared,
                   mode, held, key>>

FormatNext == FormatResult

SpecFormat == FormatInit /\ [][FormatNext]_vars

(***************************************************************************)
(* Full-buffer specification: digits and points pressed on an input that   *)
(* typing has filled, or nearly filled, to CALC_VALUE_SIZE characters.     *)
(***************************************************************************)
\* key sequences typing a number of CALC_VALUE_SIZE - 2 .. CALC_VALUE_SIZE
\* characters, as the first operand or after "2 x"
LongEntries ==
    {t[1] \o t[2] \o Rep("2", t[3]) \o t[4] \o Rep("3", t[5]) :
        t \in {u \in {<<>>, <<"2", "x">>} \X {<<>>, <<"-">>} \X (1..CALC_VALUE_SIZE)
                        \X {<<>>, <<".">>} \X (0..CALC_VALUE_SIZE) :
                 Len(u[2]) + u[3] + Len(u[4]) + u[5]
                    \in (CALC_VALUE_SIZE - 2)..CALC_VALUE_SIZE}}

FullInit ==
    /\ GhostInit
    /\ fixed = <<>>
    /\ \E p \in LongEntries :
         LET c == RunKeys(Constructed, p, eeprom)
         IN /\ input = c.input
            /\ result = c.result
            /\ resultBuffer = c.resultBuffer
            /\ pendingOperation = c.pendingOperation
            /\ staleInput = c.staleInput
            /\ error = c.error

FullDigit(d) ==
    /\ Len(pressed) < MaxFullKeys
    /\ GhostPress(d)

FullPoint ==
    /\ Len(pressed) < MaxFullKeys
    /\ GhostPress(".")

FullNext == (\E d \in Digits : FullDigit(d)) \/ FullPoint

SpecFull == FullInit /\ [][FullNext]_vars

(***************************************************************************)
(* Main loop specification: the key events of loop() on the 6x4 matrix,    *)
(* dispatched to the current mode.                                         *)
(***************************************************************************)
\* Calculator::mapping
mapping ==
    << <<"a", "b", "c", "d">>,
       <<"C", "/", "x", "-">>,
       <<"7", "8", "9", "+">>,
       <<"4", "5", "6", "+">>,
       <<"1", "2", "3", "\n">>,
       <<"0", "0", ".", "\n">> >>

KeySymbols == {mapping[i][j] : i \in 1..ROWS, j \in 1..COLS}

\* the values getChar(row, column) can return: mapping[row][column], and any
\* char when an index is outside the array's bounds (all chars but those of
\* the keymap behave as NUL or as a key without a case)
getChar(row, column) ==
    IF row < ROWS /\ column < COLS
    THEN {mapping[row + 1][column + 1]}
    ELSE KeySymbols \cup {NUL}

\* the key that switches modes (col == 0 && row == 1)
ModeKey == <<1, 0>>

LoopEvent(kind, k) ==
    /\ events < MaxLoopEvents
    /\ events' = events + 1
    /\ last' = [kind |-> kind, key |-> k]
    /\ cleared' = (kind = "press" /\ k = "C" /\ input # <<>>)
    /\ UNCHANGED <<pressed, collision, fixed>>

LoopInit ==
    /\ input = Constructed.input
    /\ result = Constructed.result
    /\ resultBuffer = Constructed.resultBuffer
    /\ pendingOperation = Constructed.pendingOperation
    /\ staleInput = Constructed.staleInput
    /\ error = Constructed.error
    /\ eeprom \in [0..3 -> EepromInit]
    /\ typed = <<>>
    /\ last = [kind |-> "init", key |-> NUL]
    /\ events = 0
    /\ pressed = <<>>
    /\ collision = FALSE
    /\ stored = [s \in 0..3 |-> NoStore]
    /\ fixed = <<>>
    /\ cleared = FALSE
    /\ mode = "numpad"
    /\ held = {}
    /\ key = NoKey

\* key down: currentMode->onPress(row, col)
LoopPress(row, col) ==
    /\ <<row, col>> \notin held
    /\ Cardinality(held) < MaxHeld
    /\ held' = held \cup {<<row, col>>}
    /\ key' = [row |-> row, col |-> col, i |-> row, j |-> col]
    /\ IF mode = "calculator"
       THEN \E ch \in getChar(row, col) :
               LoopEvent("press", ch) /\ Set(onPress(Self, ch, eeprom))
       ELSE LoopEvent("numpad", NUL) /\ UNCHANGED calcVars
    /\ UNCHANGED <<eeprom, typed, stored, mode>>

\* key up: currentMode->onRelease(row, col), which Calculator does not override
LoopRelease(row, col) ==
    /\ <<row, col>> \in held
    /\ held' = held \ {<<row, col>>}
    /\ key' = [row |-> row, col |-> col, i |-> row, j |-> col]
    /\ LoopEvent(IF mode = "calculator" THEN "release" ELSE "numpad", NUL)
    /\ UNCHANGED <<calcVars, eeprom, typed, stored, mode>>

\* a key other than the mode key held for longPressMs:
\* currentMode->onLongPress(col, row)
LoopLongPress(row, col) ==
    /\ <<row, col>> \in held
    /\ <<row, col>> # ModeKey
    /\ key' = [row |-> row, col |-> col, i |-> col, j |-> row]
    /\ IF mode = "calculator"
       THEN \E ch \in getChar(col, row) :
               /\ LoopEvent("long", ch)
               /\ LET r == onLongPress(Self, ch, eeprom)
                  IN Set(r.calc) /\ eeprom' = r.mem
               /\ typed' = IF ch \in {".", NUL} THEN getResult(Self) ELSE typed
               /\ stored' = IF ch \in {"a", "b", "c", "d"}
                            THEN [stored EXCEPT
                                    ![CHOOSE s \in 0..3 : SlotKey(s) = ch] =
                                        [set |-> TRUE, value |-> result,
                                         shown |-> getResult(Self)]]
                            ELSE stored
       ELSE /\ LoopEvent("numpad", NUL)
            /\ UNCHANGED <<calcVars, eeprom, typed, stored>>
    /\ UNCHANGED <<mode, held>>

\* the mode key held for longPressMs: the other mode becomes current and its
\* onShow runs
LoopSwitch ==
    /\ ModeKey \in held
    /\ key' = [row |-> ModeKey[1], col |-> ModeKey[2], i |-> ROWS, j |-> COLS]
    /\ LoopEvent("show", NUL)
    /\ IF mode = "numpad"
       THEN mode' = "calculator" /\ Set(onShow(Self))
       ELSE mode' = "numpad" /\ UNCHANGED calcVars
    /\ UNCHANGED <<eeprom, typed, stored, held>>

LoopNext ==
    \/ \E row \in 0..(ROWS - 1), col \in 0..(COLS - 1) : LoopPress(row, col)
    \/ \E row \in 0..(ROWS - 1), col \in 0..(COLS - 1) : LoopRelease(row, col)
    \/ \E row \in 0..(ROWS - 1), col \in 0..(COLS - 1) : LoopLongPress(row, col)
    \/ LoopSwitch

SpecLoop == LoopInit /\ [][LoopNext]_vars

(***************************************************************************)
(* Properties                                                              *)
(***************************************************************************)
\* the step is a press of key k
Pressed(k) == last'.kind = "press" /\ last'.key = k

\* the step is a press that runs doMath: Equals, or an operator key on an
\* input that is neither empty nor stale
MathRuns ==
    /\ last'.kind = "press"
    /\ \/ last'.key = "\n"
       \/ last'.key \in OperatorKeys /\ input # <<>> /\ ~staleInput

\* the step is a Clear press on an empty input buffer
ClearOnEmpty == Pressed("C") /\ input = <<>>

\* the operation doMath is about to apply divides by a zero input
DividesByZero == pendingOperation = "/" /\ IsZero(atof(getInput(Self)))

\* C1: after k <= CALC_VALUE_SIZE digit presses from a state whose input is
\* stale, none of them a 0 pressed on a buffer "0" or "-0", getInput() is
\* the concatenation of the pressed digits.
C1_DigitsConcatenate ==
    (pressed # <<>> /\ Len(pressed) <= CALC_VALUE_SIZE /\ ~collision)
        => getInput(Self) = pressed

\* C2 as claimed: an operator key (+, -, x, /) pressed while the input is
\* empty or stale becomes the pending operator and leaves the running
\* result and its display unchanged.
C2_OperatorOnStaleReplaces ==
    [][(last'.kind = "press" /\ last'.key \in OperatorKeys
            /\ (input = <<>> \/ staleInput))
        => (/\ pendingOperation' = last'.key
            /\ result' = result
            /\ resultBuffer' = resultBuffer)]_vars

\* C2 as amended: on an empty or stale input the keys +, x and / only
\* replace the pending operator (the input is left stale), while - leaves
\* the pending operator as it is and starts the negative input "-"; in both
\* cases the running result, its display and the error flag are unchanged.
C2_OperatorOnStale ==
    [][(last'.kind = "press" /\ last'.key \in OperatorKeys
            /\ (input = <<>> \/ staleInput))
        => (/\ result' = result
            /\ resultBuffer' = resultBuffer
            /\ error' = error
            /\ eeprom' = eeprom
            /\ IF last'.key = "-"
               THEN /\ pendingOperation' = pendingOperation
                    /\ input' = <<"-">>
                    /\ staleInput' = FALSE
               ELSE /\ pendingOperation' = last'.key
                    /\ input' = input
                    /\ staleInput' = TRUE)]_vars

\* C2 witness: + was pending on a stale input holding a committed number and
\* - was pressed: + is still pending and the input is the sign.
C2_MinusAfterPlus ==
    /\ last = [kind |-> "press", key |-> "-"]
    /\ pendingOperation = "+"
    /\ input = <<"-">>
    /\ ~staleInput
    /\ ~IsZero(result)

\* C3: from the initial state, the keys of A, an operator, the keys of B
\* (B not zero under /) and Equals make getResult() the formatted A op B,
\* and the error flag false.
C3_EntryShowsResult ==
    EntryDone(pressed) =>
        /\ getResult(Self) =
               double_to_str(Apply(pressed[OperatorPos(pressed)],
                                   atof(LeftKeys(pressed)),
                                   atof(RightKeys(pressed))))
        /\ ~error

\* C4: when doMath runs with / pending, an input of value zero sets the error
\* flag and leaves the running result and its display as they were; any
\* other input is divided by, the display is the formatted quotient and the
\* error flag is false.
C4_DivideByZero ==
    [][(MathRuns /\ pendingOperation = "/")
        => IF IsZero(atof(getInput(Self)))
           THEN /\ error'
                /\ result' = result
                /\ resultBuffer' = resultBuffer
           ELSE /\ ~error'
                /\ result' = DblDiv(result, atof(getInput(Self)))
                /\ resultBuffer' = double_to_str(result')]_vars

\* C4 witness: Equals divided the running result 2 by a zero input.
C4_DividedTwoByZero ==
    /\ last = [kind |-> "press", key |-> "\n"]
    /\ pendingOperation = "/"
    /\ error
    /\ result = Dbl(FALSE, 2, 1)
    /\ IsZero(atof(getInput(Self)))

\* C5: in every reachable state getResult() is the formatting of the running
\* result.
C5_ResultDisplayed == getResult(Self) = double_to_str(result)

\* C6: Clear on an empty input buffer resets the running result to 0 (shown
\* as "0"), the pending operator to none and the error flag to false.
C6_ClearResetsAll ==
    [][ClearOnEmpty
        => (/\ result' = Zero
            /\ resultBuffer' = <<"0">>
            /\ pendingOperation' = NUL
            /\ error' = FALSE)]_vars

C8_ShowResets ==
    [][last'.kind = "show"
        => (/\ input' = <<>>
            /\ result' = Zero
            /\ resultBuffer' = <<"0">>
            /\ pendingOperation' = NUL
            /\ staleInput' = TRUE
            /\ error' = FALSE)]_vars

\* C9: on a non-stale input a 0 press is a no-op exactly when the buffer is
\* "0" or "-0"; every other digit press on a non-stale buffer shorter than
\* CALC_VALUE_SIZE appends the digit.
C9_ZeroSuppression ==
    [][(last'.kind = "press" /\ IsDigit(last'.key) /\ ~staleInput)
        => IF last'.key = "0" /\ input \in {<<"0">>, <<"-", "0">>}
           THEN input' = input
           ELSE Len(input) < CALC_VALUE_SIZE => input' = Append(input, last'.key)]_vars

\* C10: a recall press sets the input buffer to the slot's value and the
\* stale flag to false.
C10_RecallUsable ==
    [][(\E s \in Slots : Pressed(SlotKey(s)))
        => (/\ \E s \in Slots :
                  Pressed(SlotKey(s)) /\ input' = double_to_str(eeprom[s])
            /\ staleInput' = FALSE)]_vars

\* C11: a recall of slot s right after a Clear that emptied the input, the
\* slot having been stored to before, sets the input buffer to the running
\* result of the last store to s, which is also what getResult() displayed
\* at that store.
C11_StoreClearRecall ==
    [][\A s \in Slots :
          (Pressed(SlotKey(s)) /\ last = [kind |-> "press", key |-> "C"]
                /\ input = <<>> /\ stored[s].set)
            => (/\ input' = double_to_str(stored[s].value)
                /\ input' = stored[s].shown)]_vars

\* C13: a recall of a slot never stored to yields the input "0", and a recall
\* of a slot stored to yields the last value stored.
C13_RecallValue ==
    [][\A s \in Slots :
          Pressed(SlotKey(s))
            => input' = IF stored[s].set THEN double_to_str(stored[s].value)
                        ELSE <<"0">>]_vars

\* number of points in a string
PointCount(s) == Cardinality({i \in 1..Len(s) : s[i] = "."})

\* C12: a Point press on a stale input makes the buffer "0."; on a non-stale
\* input it appends "." only if the buffer holds no point yet (and has room),
\* and leaves the buffer as it is otherwise; no input buffer ever holds two
\* points.
C12_PointOnce ==
    [][/\ Pressed(".")
           => IF staleInput
              THEN input' = <<"0", ".">> /\ staleInput' = FALSE
              ELSE input' = IF PointCount(input) > 0 \/ Len(input) >= CALC_VALUE_SIZE
                            THEN input
                            ELSE Append(input, ".")
       /\ PointCount(input') <= 1]_vars

\* C12 witness: Point was pressed on "2.3" and the buffer is still "2.3".
C12_SecondPointIgnored ==
    /\ last = [kind |-> "press", key |-> "."]
    /\ input = <<"2", ".", "3">>
    /\ ~staleInput

\* the text before the first point of s
IntegerPart(s) ==
    SubSeq(s, 1, Len(s) - Cardinality({i \in 1..Len(s) : \E j \in 1..i : s[j] = "."}))

\* C14: the formatted result has at most CALC_VALUE_SIZE characters, does not
\* end in a point, has no trailing zero in its fractional part, and keeps
\* every digit of the integer part of the fixed rendering.
C14_FormatKeepsInteger ==
    last.kind = "format" =>
        /\ Len(resultBuffer) <= CALC_VALUE_SIZE
        /\ resultBuffer # <<>>
        /\ resultBuffer[Len(resultBuffer)] # "."
        /\ PointCount(resultBuffer) > 0 => resultBuffer[Len(resultBuffer)] # "0"
        /\ IntegerPart(resultBuffer) = IntegerPart(fixed)

\* the step is an operator key pressed on an input neither empty nor stale
OperatorCommits ==
    /\ last'.kind = "press"
    /\ last'.key \in OperatorKeys
    /\ input # <<>>
    /\ ~staleInput

\* C15: an operator key pressed on a non-empty, non-stale input makes the
\* running result apply(pending operator, running result, value of the
\* input), the value of the input itself when no operator is pending and
\* unchanged when the operation divides by zero; the pressed key becomes the
\* pending operator and the input becomes stale.
C15_OperatorCommits ==
    [][OperatorCommits
        => (/\ result' = IF pendingOperation = NUL THEN atof(getInput(Self))
                         ELSE IF DividesByZero THEN result
                         ELSE Apply(pendingOperation, result, atof(getInput(Self)))
            /\ pendingOperation' = last'.key
            /\ staleInput' = TRUE)]_vars

\* C15 witness: after 2 + 3 the key x was pressed: the sum 5 is the running
\* result before any multiplication, and x is pending.
C15_SumBeforeProduct ==
    /\ last = [kind |-> "press", key |-> "x"]
    /\ events = 4
    /\ pendingOperation = "x"
    /\ result = Dbl(FALSE, 5, 1)
    /\ input = <<"3">>
    /\ staleInput

\* C16: Equals pressed while the input is empty or stale leaves the running
\* result unchanged.
C16_EqualsOnStale ==
    [][(Pressed("\n") /\ (input = <<>> \/ staleInput)) => result' = result]_vars

\* C17: Equals keeps the pending operator and leaves the input stale; with an
\* operator pending it applies that operator to the running result and the
\* value of the input; a digit pressed right after Equals becomes the whole
\* input.
C17_EqualsKeepsOperator ==
    [][/\ Pressed("\n")
            => /\ pendingOperation' = pendingOperation
               /\ staleInput' = TRUE
               /\ (pendingOperation \in OperatorKeys /\ ~DividesByZero)
                    => result' = Apply(pendingOperation, result, atof(getInput(Self)))
       /\ (last = [kind |-> "press", key |-> "\n"]
             /\ last'.kind = "press" /\ last'.key \in Digits)
            => (input' = <<last'.key>> /\ staleInput' = FALSE)]_vars

\* C17 witness: 2 x 3 = was entered: the result is 6 and x is still pending.
C17_ProductStillPending ==
    /\ last = [kind |-> "press", key |-> "\n"]
    /\ pendingOperation = "x"
    /\ staleInput
    /\ result = Dbl(FALSE, 6, 1)
    /\ input = <<"3">>

\* C18: Clear on a non-empty input empties the input, makes it stale and
\* changes nothing else; a Clear right after such a Clear resets the running
\* result to 0 (shown as "0"), the pending operator to none and the error
\* flag to false.
C18_ClearInputOnly ==
    [][/\ (Pressed("C") /\ input # <<>>)
            => /\ input' = <<>>
               /\ staleInput' = TRUE
               /\ result' = result
               /\ resultBuffer' = resultBuffer
               /\ pendingOperation' = pendingOperation
               /\ error' = error
               /\ eeprom' = eeprom
       /\ (Pressed("C") /\ cleared)
            => /\ input = <<>>
               /\ result' = Zero
               /\ resultBuffer' = <<"0">>
               /\ pendingOperation' = NUL
               /\ error' = FALSE]_vars

\* C19: the input buffer holds at most CALC_VALUE_SIZE characters, at most
\* one point, a minus sign only as its first character, and digits otherwise.
C19_InputWellFormed ==
    /\ Len(input) <= CALC_VALUE_SIZE
    /\ PointCount(input) <= 1
    /\ \A i \in 1..Len(input) :
         \/ input[i] \in DigitSet
         \/ input[i] = "."
         \/ input[i] = "-" /\ i = 1

\* C20: a digit or a point pressed on a non-stale input of CALC_VALUE_SIZE
\* characters changes nothing of the calculator: input, running result and
\* its display, pending operator, stale flag and error flag.
C20_FullInputRejects ==
    [][(/\ last'.kind = "press"
        /\ last'.key \in Digits \cup {"."}
        /\ ~staleInput
        /\ Len(input) = CALC_VALUE_SIZE)
        => UNCHANGED calcVars]_vars

\* C20 witness: a 3 and a point were pressed on a buffer of CALC_VALUE_SIZE
\* 2s, which is still that buffer.
C20_FullOfTwos ==
    /\ pressed = <<"3", ".">>
    /\ input = Rep("2", CALC_VALUE_SIZE)
    /\ ~staleInput
    /\ ~error

\* the step is a store (long press of the memory key) to slot s
Stores(s) == last'.kind = "long" /\ last'.key = SlotKey(s)

\* C21: a store to slot s writes the running result to slot s and leaves the
\* other slots, the running result, the pending operator and the error flag
\* unchanged; a step that is not a store to slot s leaves slot s unchanged.
C21_StoreOnlySlot ==
    [][\A s \in 0..3 :
          IF Stores(s)
          THEN /\ eeprom'[s] = result
               /\ \A t \in 0..3 : t # s => eeprom'[t] = eeprom[t]
               /\ result' = result
               /\ pendingOperation' = pendingOperation
               /\ error' = error
          ELSE eeprom'[s] = eeprom[s]]_vars

\* C21 witness: 2 was stored to slot b with + pending while slot a still
\* holds its erased content.
C21_StoredTwoBesideErased ==
    /\ last = [kind |-> "long", key |-> "b"]
    /\ eeprom[1] = Dbl(FALSE, 2, 1)
    /\ IsNaN(eeprom[0])
    /\ result = Dbl(FALSE, 2, 1)
    /\ pendingOperation = "+"

\* C22: a long press the main loop delivers to the calculator calls getChar
\* with both indices inside the bounds of mapping and resolves to the symbol
\* a press of the same key resolves to; on the keys a..d it stores the result
\* to the slot of that name, on the Point key it sends the result to the host.
C22_LongPressResolves ==
    [][last'.kind = "long"
        => LET symbol == mapping[key'.row + 1][key'.col + 1]
           IN /\ key'.i < ROWS
              /\ key'.j < COLS
              /\ last'.key = symbol
              /\ \A s \in 0..3 : symbol = SlotKey(s) => eeprom'[s] = result
              /\ symbol = "." => typed' = getResult(Self)]_vars

\* C23: whenever the input buffer is empty the input is stale, and a Point
\* press on an empty buffer makes the buffer "0.".
C23_EmptyIsStale ==
    /\ [](input = <<>> => staleInput)
    /\ [][(Pressed(".") /\ input = <<>>)
            => (input' = <<"0", ".">> /\ staleInput' = FALSE)]_vars

\* C23 witness: Point was the first key pressed, on the empty buffer the
\* constructor leaves; the buffer is "0.".
C23_PointOnEmpty ==
    /\ last = [kind |-> "press", key |-> "."]
    /\ events = 1
    /\ input = <<"0", ".">>
    /\ ~staleInput

=============================================================================
